---- MODULE Spec2Model ----
(***************************************************************************)
(* Model of src/app.py: the page classification and grouping engine of the *)
(* PDF report splitter (extract_code_by_rule, call_gemini_ai,               *)
(* extract_code_hybrid, generate_filename, process_pdf).                    *)
(*                                                                         *)
(* Representation of the Python values:                                    *)
(*   - a page's full text (page.get_text()) is a sequence of words, and    *)
(*     `marker in text` is a search for a contiguous run of words;         *)
(*   - the text of the rule extractor's scan rectangle is a sequence of    *)
(*     one-character strings, so the regular expression is applied         *)
(*     character by character;                                             *)
(*   - Python's None is the value None below, distinct from every str;     *)
(*   - a str is a TLA+ string.                                             *)
(***************************************************************************)
EXTENDS Integers, Sequences, FiniteSets, TLC

\* ------------------------------------------------------------------ bounds
\* The largest number of pages of an uploaded document.
MaxPages == 4

\* The largest number of words in the scan rectangle of a direct call of
\* the rule extractor.
MaxWords == 3

\* The largest number of pages of a document uploaded in a session of
\* several runs.
MaxSessionPages == 2

\* ------------------------------------------------------- Python's values
None == "<None>"
UNKNOWN == "UNKNOWN"
Unclassified == "Unclassified"
ALL == "ALL"

\* bool(v) of a str or None: None and the empty str are falsy.
Truthy(v) == v # None /\ v # ""

\* str(v) as an f-string formats it: None prints as "None".
Str(v) == IF v = None THEN "None" ELSE v

Digits == <<"0", "1", "2", "3", "4", "5", "6", "7", "8", "9">>

\* str(n) of a natural number.
RECURSIVE IntStr(_)
IntStr(n) == IF n < 10 THEN Digits[n + 1]
             ELSE IntStr(n \div 10) \o Digits[(n % 10) + 1]

Range(s) == {s[k] : k \in 1..Len(s)}

\* `marker in text` on word sequences: marker occurs as a contiguous run.
Contains(text, marker) ==
    \E k \in 0..(Len(text) - Len(marker)) :
        \A j \in 1..Len(marker) : text[k + j] = marker[j]

\* --------------------------------------------------- extract_code_by_rule
LowerAlpha == <<"a","b","c","d","e","f","g","h","i","j","k","l","m",
                "n","o","p","q","r","s","t","u","v","w","x","y","z">>
UpperAlpha == <<"A","B","C","D","E","F","G","H","I","J","K","L","M",
                "N","O","P","Q","R","S","T","U","V","W","X","Y","Z">>

IsUpper(c) == \E k \in 1..Len(UpperAlpha) : UpperAlpha[k] = c
IsLower(c) == \E k \in 1..Len(LowerAlpha) : LowerAlpha[k] = c
\* \w of the regular expression: a letter, a digit or the underscore.
IsWordChar(c) == IsUpper(c) \/ IsLower(c) \/ c \in Range(Digits) \/ c = "_"

UpperChar(c) ==
    IF IsLower(c)
    THEN UpperAlpha[CHOOSE k \in 1..Len(LowerAlpha) : LowerAlpha[k] = c]
    ELSE c

\* text_in_box.upper().replace('\n', ' ')  (strip() removes no letter)
CleanText(box) ==
    [k \in 1..Len(box) |->
        IF box[k] = "\n" THEN " " ELSE UpperChar(box[k])]

BLACKLIST == {"THE", "AND", "RPT", "ALL", "USD", "PDF", "DAT", "TIM", "PAG",
              "REC", "OUT", "STA", "FEE", "REP", "GRA", "TOT", "END", "SUM",
              "UNK", "WHK", "ACC", "NO.", "NUM", "BER", "COU", "UNT"}

\* A match of \b[A-Z]{3}\b starts at position k of the clean text.
MatchAt(t, k) ==
    /\ k + 2 <= Len(t)
    /\ IsUpper(t[k]) /\ IsUpper(t[k + 1]) /\ IsUpper(t[k + 2])
    /\ (k = 1 \/ ~IsWordChar(t[k - 1]))
    /\ (k + 2 = Len(t) \/ ~IsWordChar(t[k + 3]))

\* re.findall(r'\b[A-Z]{3}\b', clean_text), scanning from position k.
RECURSIVE FindAll(_, _)
FindAll(t, k) ==
    IF k > Len(t) THEN <<>>
    ELSE IF MatchAt(t, k)
         THEN <<t[k] \o t[k + 1] \o t[k + 2]>> \o FindAll(t, k + 3)
         ELSE FindAll(t, k + 1)

NotBlacklisted(m) == m \notin BLACKLIST

\* A candidate list that keeps the blacklisted matches.
ValidCodesUnfiltered(box) == FindAll(CleanText(box), 1)

\* [m for m in matches if m not in BLACKLIST]
ValidCodes(box) == SelectSeq(FindAll(CleanText(box), 1), NotBlacklisted)

\* page.box_error: page.get_text("text", clip=...) raises; the except
\* clause returns None.
extract_code_by_rule(page) ==
    IF page.box_error THEN None
    ELSE IF Len(ValidCodes(page.box)) > 0 THEN ValidCodes(page.box)[1]
    ELSE None

\* --------------------------------------------------------- call_gemini_ai
\* What json.loads makes of the reply once the code fences are stripped:
\* "invalid" (json.loads raises), "array" (a JSON value that is no object:
\* data.get raises), or "object" with or without a `code` member.
JsonInvalid == [kind |-> "invalid", has_code |-> FALSE, code |-> None]
JsonArray == [kind |-> "array", has_code |-> FALSE, code |-> None]
JsonNoCode == [kind |-> "object", has_code |-> FALSE, code |-> None]
JsonCode(v) == [kind |-> "object", has_code |-> TRUE, code |-> v]

\* One attempt of the backend: model.generate_content raises, or
\* response.text is returned.
Raises == [raised |-> TRUE, text |-> JsonInvalid]
Replies(text) == [raised |-> FALSE, text |-> text]

\* @retry(stop=stop_after_attempt(2), ...)
StopAfterAttempt == 2

\* The retry loop from attempt n on: the first attempt that returns ends
\* it; an exception on the last attempt is re-raised (RetryError).
RECURSIVE Attempt(_, _)
Attempt(backend, n) ==
    IF ~backend[n].raised
    THEN [raised |-> FALSE, text |-> backend[n].text, calls |-> n]
    ELSE IF n >= StopAfterAttempt
         THEN [raised |-> TRUE, text |-> JsonInvalid, calls |-> n]
         ELSE Attempt(backend, n + 1)

call_gemini_ai(backend) == Attempt(backend, 1)

\* ---------------------------------------------------- extract_code_hybrid
AI_BLACKLIST == {"OUT", "REP", "FEE", "WHK", "UNK"}

\* data.get('code', 'UNKNOWN')
DataGet(data) == IF data.has_code THEN data.code ELSE UNKNOWN

\* What a call of the resolver did: the value it returned (or that it
\* raised), the rule extractor's result, the number of backend calls and
\* the branch that ended the call.
Outcome(code, rule, calls, path) ==
    [raised |-> FALSE, code |-> code, rule |-> rule, ai_calls |-> calls,
     path |-> path]

\* A try block whose except clause misses the backend's exception, which
\* then leaves the resolver.
AiFallbackPropagates(page, rule) ==
    IF ~page.render_ok THEN Outcome(UNKNOWN, rule, 0, "render_error")
    ELSE LET r == call_gemini_ai(page.backend) IN
         IF r.raised
         THEN [Outcome(UNKNOWN, rule, r.calls, "backend_error")
                 EXCEPT !.raised = TRUE]
         ELSE IF r.text.kind # "object"
              THEN Outcome(UNKNOWN, rule, r.calls, "not_json")
         ELSE IF DataGet(r.text) \in AI_BLACKLIST
              THEN Outcome(UNKNOWN, rule, r.calls, "ai_blacklist")
         ELSE Outcome(DataGet(r.text), rule, r.calls, "ai_code")

\* The try block of extract_code_hybrid; every exception in it is caught
\* and gives "UNKNOWN".
AiFallback(page, rule) ==
    IF ~page.render_ok THEN Outcome(UNKNOWN, rule, 0, "render_error")
    ELSE LET r == call_gemini_ai(page.backend) IN
         IF r.raised THEN Outcome(UNKNOWN, rule, r.calls, "backend_error")
         ELSE IF r.text.kind = "invalid"
              THEN Outcome(UNKNOWN, rule, r.calls, "not_json")
         ELSE IF r.text.kind # "object"
              THEN Outcome(UNKNOWN, rule, r.calls, "not_object")
         ELSE IF DataGet(r.text) \in AI_BLACKLIST
              THEN Outcome(UNKNOWN, rule, r.calls, "ai_blacklist")
         ELSE Outcome(DataGet(r.text), rule, r.calls,
                      IF r.text.has_code THEN "ai_code" ELSE "no_code")

\* A resolver that asks the backend before it looks at the rule's result.
HybridAsksBackendFirst(page, api_key) ==
    LET rule_code == extract_code_by_rule(page) IN
    IF ~Truthy(api_key)
    THEN Outcome(IF Truthy(rule_code) THEN rule_code ELSE UNKNOWN,
                 rule_code, 0, IF Truthy(rule_code) THEN "rule" ELSE "no_key")
    ELSE IF Truthy(rule_code)
         THEN Outcome(rule_code, rule_code,
                      IF page.render_ok
                      THEN call_gemini_ai(page.backend).calls ELSE 0,
                      "rule")
         ELSE AiFallback(page, rule_code)

\* The result of the resolver on a page, with the number of backend calls
\* it made and the path it took.
extract_code_hybrid(page, api_key) ==
    LET rule_code == extract_code_by_rule(page) IN
    IF Truthy(rule_code) THEN Outcome(rule_code, rule_code, 0, "rule")
    ELSE IF ~Truthy(api_key) THEN Outcome(UNKNOWN, rule_code, 0, "no_key")
    ELSE AiFallback(page, rule_code)

\* --------------------------------------------------------- generate_filename
Outstanding == <<"Outstanding">>

\* A filename that ignores the text.
FilenameAlwaysMF(code, page_text) == "Rpt 615-" \o Str(code) \o " MF.pdf"

generate_filename(code, page_text) ==
    IF Contains(page_text, Outstanding)
    THEN "Rpt 614-" \o Str(code) \o " Outstanding.pdf"
    ELSE "Rpt 615-" \o Str(code) \o " MF.pdf"

\* ------------------------------------------------------------- process_pdf
VARIABLES
    GEMINI_API_KEY,      \* the configured credential, "" when absent
    doc,                 \* the uploaded document: the full text of each page
    pc,                  \* where process_pdf is: idle, open, scan, assemble,
                         \* done, failed
    i,                   \* the scan loop's page index (0-based)
    page_groups,         \* the groups emitted so far
    current_group,       \* the page indices of the open group
    last_code,           \* the code of the open group, None when absent
    resolved,            \* per scanned page, what the scan obtained for it:
                         \* the resolver's result, or Skipped for a trailer
    hybrid,              \* the resolver call of the latest loop iteration
    gi,                  \* the assembly loop's position in page_groups
    generated_files,     \* st.session_state.generated_files
    processing_complete, \* st.session_state.processing_complete
    zip_data,            \* st.session_state.zip_data
    returned,            \* the value process_pdf returned, None before
    invocations,         \* the page indices extract_code_hybrid was called
                         \* for in this run, in call order
    open_handles,        \* the fitz documents of this run that are open
    temp_file,           \* the temporary copy of the upload exists
    rule_call            \* a direct call of extract_code_by_rule

vars == <<GEMINI_API_KEY, doc, pc, i, page_groups, current_group, last_code,
          resolved, hybrid, gi, generated_files, processing_complete,
          zip_data, returned, invocations, open_handles, temp_file,
          rule_call>>

total_pages == Len(doc)

\* doc[p].get_text() for the 0-based page index p.
PageText(p) == doc[p + 1]

Skipped == "<trailer>"
NoCall == [page |-> -1, raised |-> FALSE, code |-> None, rule |-> None,
           ai_calls |-> 0, path |-> "none"]

\* rule_call before extract_code_by_rule has returned.
NoRuleCall == [page |-> [box_error |-> FALSE, box |-> <<>>],
               returned |-> FALSE, code |-> None]

EndOfReport == <<"End", "of", "Report">>
GrandTotal == <<"Grand", "Total">>

\* A trailer check that knows one marker only.
IsTrailerEndOnly(page_text) == Contains(page_text, EndOfReport)

\* "End of Report" in page_text or "Grand Total" in page_text
IsTrailer(page_text) ==
    Contains(page_text, EndOfReport) \/ Contains(page_text, GrandTotal)

\* {'code': ..., 'pages': ..., 'text': doc[pages[0]].get_text()}
Group(code, pages) ==
    [code |-> code, pages |-> pages, text |-> PageText(pages[1])]

Engine(groups, group, code) ==
    [page_groups |-> groups, current_group |-> group, last_code |-> code]

\* A trailer branch that does nothing: the open group runs on past the
\* trailer.
TrailerIgnored(st) == st

\* A trailer branch that closes the group and keeps its code.
TrailerKeepsCode(st) ==
    IF st.current_group # <<>>
    THEN Engine(Append(st.page_groups, Group(st.last_code, st.current_group)),
                <<>>, st.last_code)
    ELSE st

\* The trailer branch of the scan loop.
TrailerPage(st) ==
    IF st.current_group # <<>>
    THEN Engine(Append(st.page_groups, Group(st.last_code, st.current_group)),
                <<>>, None)
    ELSE st

\* A repair that inherits the last code and knows no "Unclassified".
ContinuityNoSentinel(code, last) ==
    IF code = UNKNOWN /\ Truthy(last) THEN last ELSE code

\* The two repairs of an "UNKNOWN" result.
Continuity(code, last) ==
    LET inherited == IF code = UNKNOWN /\ Truthy(last) THEN last ELSE code
    IN  IF inherited = UNKNOWN /\ last = None THEN Unclassified ELSE inherited

\* A grouping branch that forgets the page when the code is unchanged.
TransitionDropsPage(st, code, p) ==
    IF code # st.last_code
    THEN Engine(IF st.current_group # <<>>
                THEN Append(st.page_groups,
                            Group(st.last_code, st.current_group))
                ELSE st.page_groups,
                <<p>>, code)
    ELSE st

\* The grouping branch of the scan loop for page p with the repaired code.
Transition(st, code, p) ==
    IF code # st.last_code
    THEN Engine(IF st.current_group # <<>>
                THEN Append(st.page_groups,
                            Group(st.last_code, st.current_group))
                ELSE st.page_groups,
                <<p>>, code)
    ELSE Engine(st.page_groups, Append(st.current_group, p), st.last_code)

\* After the loop: the open group is emitted.
LastGroup(st) ==
    IF st.current_group # <<>>
    THEN Append(st.page_groups,
                Group(IF Truthy(st.last_code) THEN st.last_code
                      ELSE Unclassified,
                      st.current_group))
    ELSE st.page_groups

\* No empty-input guard.
NoFallback(groups, n) == groups

\* if not page_groups: one group "ALL" of every page, with the text "".
Fallback(groups, n) ==
    IF groups = <<>>
    THEN <<[code |-> ALL, pages |-> [k \in 1..n |-> k - 1], text |-> <<>>]>>
    ELSE groups

\* min(pages)+1 "-" max(pages)+1
Min(s) == CHOOSE x \in Range(s) : \A y \in Range(s) : x <= y
Max(s) == CHOOSE x \in Range(s) : \A y \in Range(s) : x >= y

\* The record appended to generated_files for a group; content is the
\* text of the pages inserted, in the order of insertion.
OutputFile(group) ==
    [filename |-> generate_filename(group.code, group.text),
     content |-> [k \in 1..Len(group.pages) |-> PageText(group.pages[k])],
     code |-> group.code,
     page_count |-> Len(group.pages),
     page_range |-> IntStr(Min(group.pages) + 1) \o "-"
                    \o IntStr(Max(group.pages) + 1)]

\* zf.writestr(f['filename'], f['content']) for every file, in order.
ZipOf(files) ==
    [k \in 1..Len(files) |->
        [name |-> files[k].filename, data |-> files[k].content]]

\* ----------------------------------------------------------------- inputs
TextPlain == <<"Grand", "Fee", "Total", "Report">>
TextOutstanding == <<"Fee", "Outstanding", "Report">>
TextEnd == <<"End", "of", "Report">>
TextGrand == <<"Outstanding", "Grand", "Total">>
Texts == {TextPlain, TextOutstanding, TextEnd, TextGrand}

Docs == UNION {[1..n -> Texts] : n \in 0..MaxPages}

BoxAPO == <<"R", "p", "t", " ", "a", "p", "o">>
BoxFPL == <<"F", "P", "L", "\n", "A", "P", "O">>
BoxBlacklisted == <<"R", "P", "T", " ", "O", "U", "T", "S">>

ReplyCodes == {"APO", "OUT", "", None, UNKNOWN}
ReplyTexts == {JsonInvalid, JsonArray, JsonNoCode}
              \cup {JsonCode(v) : v \in ReplyCodes}
Backends == {<<Replies(t)>> : t \in ReplyTexts}
            \cup {<<Raises, Replies(t)>> : t \in ReplyTexts}
            \cup {<<Raises, Raises>>}

Page(box_error, box, render_ok, backend) ==
    [box_error |-> box_error, box |-> box, render_ok |-> render_ok,
     backend |-> backend]

\* What the scan can meet on a page that is no trailer: the text of the
\* scan rectangle, whether the header renders, and how the backend answers.
PageInputs ==
    {Page(FALSE, b, TRUE, <<Raises, Raises>>) : b \in {BoxAPO, BoxFPL}}
    \cup {Page(e, BoxBlacklisted, r, k) :
            e \in BOOLEAN, r \in BOOLEAN, k \in Backends}

Keys == {"", "key"}

\* Words the scan rectangle can hold: institution codes in upper and lower
\* case, blacklisted words, and a word of four letters.
RuleWords == {<<"A", "P", "O">>, <<"f", "p", "l">>, <<"T", "H", "E">>,
              <<"O", "U", "T">>, <<"A", "B", "C", "D">>}

\* The text of the rectangle: the words, each followed by the separator.
RECURSIVE BoxText(_, _)
BoxText(words, sep) ==
    IF words = <<>> THEN <<>>
    ELSE words[1] \o <<sep>> \o BoxText(Tail(words), sep)

RuleBoxes ==
    {BoxText(ws, sep) :
        ws \in UNION {[1..n -> RuleWords] : n \in 0..MaxWords},
        sep \in {" ", "\n"}}

SessionDocs == UNION {[1..n -> Texts] : n \in 0..MaxSessionPages}

\* For each credential, the results the resolver can give on PageInputs.
HybridOutcomes ==
    [key \in Keys |-> {extract_code_hybrid(page, key) : page \in PageInputs}]

\* ------------------------------------------------------------------ actions
Init ==
    /\ GEMINI_API_KEY \in Keys
    /\ doc \in Docs
    /\ pc = "idle"
    /\ i = 0
    /\ page_groups = <<>>
    /\ current_group = <<>>
    /\ last_code = None
    /\ resolved = <<>>
    /\ hybrid = NoCall
    /\ gi = 1
    /\ generated_files = <<>>
    /\ processing_complete = FALSE
    /\ zip_data = None
    /\ returned = None
    /\ invocations = <<>>
    /\ open_handles = {}
    /\ temp_file = FALSE
    /\ rule_call = NoRuleCall

\* process_pdf is entered: the session's file list is reset and the upload
\* is written to the temporary file.
Start ==
    /\ pc = "idle"
    /\ pc' = "open"
    /\ generated_files' = <<>>
    /\ temp_file' = TRUE
    /\ UNCHANGED <<GEMINI_API_KEY, doc, i, page_groups, current_group,
                   last_code, resolved, hybrid, gi, processing_complete,
                   zip_data, returned, invocations, open_handles, rule_call>>

\* doc = fitz.open(temp_path) succeeds; the scan's locals are initialised.
OpenDocument ==
    /\ pc = "open"
    /\ pc' = "scan"
    /\ i' = 0
    /\ page_groups' = <<>>
    /\ current_group' = <<>>
    /\ last_code' = None
    /\ open_handles' = {"doc"}
    /\ UNCHANGED <<GEMINI_API_KEY, doc, resolved, hybrid, gi, generated_files,
                   processing_complete, zip_data, returned, invocations,
                   temp_file, rule_call>>

\* The documents still open when an exception leaves the try block: no
\* close() is in the except or the finally clause.  In the assembly loop
\* the exception comes from fitz.open() (no output document yet) or from
\* insert_pdf/save (the output document is open); after the loop it comes
\* from source_doc.close().
HandlesLeft ==
    IF pc = "assemble" /\ gi <= Len(page_groups)
    THEN {open_handles, open_handles \cup {"out_doc"}}
    ELSE {open_handles}

\* An except clause that returns the files generated so far.
FatalReturnsFiles ==
    /\ \/ pc = "open"
       \/ pc = "scan" /\ i < total_pages
       \/ pc = "assemble"
    /\ pc' = "failed"
    /\ returned' = generated_files
    /\ i' = 0
    /\ page_groups' = <<>>
    /\ current_group' = <<>>
    /\ last_code' = None
    /\ resolved' = <<>>
    /\ hybrid' = NoCall
    /\ gi' = 1
    /\ invocations' = <<>>
    /\ open_handles' \in HandlesLeft
    /\ temp_file' = FALSE
    /\ UNCHANGED <<GEMINI_API_KEY, doc, generated_files,
                   processing_complete, zip_data, rule_call>>

\* An exception of the document library (opening the document, reading a
\* page, building or saving an output document): the except clause returns
\* the empty list, and the locals of process_pdf are gone.
Fatal ==
    /\ \/ pc = "open"
       \/ pc = "scan" /\ i < total_pages
       \/ pc = "assemble"
    /\ pc' = "failed"
    /\ returned' = <<>>
    /\ i' = 0
    /\ page_groups' = <<>>
    /\ current_group' = <<>>
    /\ last_code' = None
    /\ resolved' = <<>>
    /\ hybrid' = NoCall
    /\ gi' = 1
    /\ invocations' = <<>>
    /\ open_handles' \in HandlesLeft
    /\ temp_file' = FALSE
    /\ UNCHANGED <<GEMINI_API_KEY, doc, generated_files,
                   processing_complete, zip_data, rule_call>>

EngineState == Engine(page_groups, current_group, last_code)

SetEngine(st) ==
    /\ page_groups' = st.page_groups
    /\ current_group' = st.current_group
    /\ last_code' = st.last_code

\* A scan loop that asks the resolver about a trailer page as well.
ScanTrailerResolves ==
    /\ pc = "scan" /\ i < total_pages
    /\ IsTrailer(PageText(i))
    /\ SetEngine(TrailerPage(EngineState))
    /\ resolved' = Append(resolved, Skipped)
    /\ hybrid' = NoCall
    /\ i' = i + 1
    /\ invocations' = Append(invocations, i)
    /\ UNCHANGED <<GEMINI_API_KEY, doc, pc, gi, generated_files,
                   processing_complete, zip_data, returned, open_handles,
                   temp_file, rule_call>>

\* One iteration of the scan loop on a trailer page.
ScanTrailer ==
    /\ pc = "scan" /\ i < total_pages
    /\ IsTrailer(PageText(i))
    /\ SetEngine(TrailerPage(EngineState))
    /\ resolved' = Append(resolved, Skipped)
    /\ hybrid' = NoCall
    /\ i' = i + 1
    /\ UNCHANGED <<GEMINI_API_KEY, doc, pc, gi, generated_files,
                   processing_complete, zip_data, returned, invocations,
                   open_handles, temp_file, rule_call>>

\* One iteration of the scan loop on any other page.
ScanPage ==
    /\ pc = "scan" /\ i < total_pages
    /\ ~IsTrailer(PageText(i))
    /\ \E out \in HybridOutcomes[GEMINI_API_KEY] :
        /\ hybrid' = [page |-> i, raised |-> out.raised, code |-> out.code,
                      rule |-> out.rule, ai_calls |-> out.ai_calls,
                      path |-> out.path]
        /\ IF out.raised
           THEN \* an exception leaving the resolver ends the run
                /\ pc' = "failed"
                /\ returned' = <<>>
                /\ i' = 0
                /\ SetEngine(Engine(<<>>, <<>>, None))
                /\ resolved' = <<>>
                /\ invocations' = <<>>
                /\ temp_file' = FALSE
           ELSE /\ resolved' = Append(resolved, out.code)
                /\ SetEngine(Transition(EngineState,
                                        Continuity(out.code, last_code), i))
                /\ i' = i + 1
                /\ invocations' = Append(invocations, i)
                /\ UNCHANGED <<pc, returned, temp_file>>
    /\ UNCHANGED <<GEMINI_API_KEY, doc, gi, generated_files,
                   processing_complete, zip_data, open_handles, rule_call>>

\* The loop is over: the open group is emitted, the document is closed and
\* the empty-input fallback is applied.
EndScan ==
    /\ pc = "scan" /\ i = total_pages
    /\ page_groups' = Fallback(LastGroup(EngineState), total_pages)
    /\ hybrid' = NoCall
    /\ gi' = 1
    /\ pc' = "assemble"
    /\ open_handles' = {"source_doc"}
    /\ UNCHANGED <<GEMINI_API_KEY, doc, i, current_group, last_code, resolved,
                   generated_files, processing_complete, zip_data, returned,
                   invocations, temp_file, rule_call>>

\* One iteration of the assembly loop: a group without pages is skipped,
\* any other group gives one output file.
AssembleGroup ==
    /\ pc = "assemble" /\ gi <= Len(page_groups)
    /\ generated_files' =
         IF page_groups[gi].pages = <<>> THEN generated_files
         ELSE Append(generated_files, OutputFile(page_groups[gi]))
    /\ gi' = gi + 1
    /\ UNCHANGED <<GEMINI_API_KEY, doc, pc, i, page_groups, current_group,
                   last_code, resolved, hybrid, processing_complete,
                   zip_data, returned, invocations, open_handles, temp_file,
                   rule_call>>

\* After the loop: the completion flag, the archive and the return value.
Finish ==
    /\ pc = "assemble" /\ gi > Len(page_groups)
    /\ processing_complete' = TRUE
    /\ zip_data' = IF generated_files # <<>> THEN ZipOf(generated_files)
                   ELSE zip_data
    /\ returned' = generated_files
    /\ pc' = "done"
    /\ open_handles' = {}
    /\ temp_file' = FALSE
    /\ UNCHANGED <<GEMINI_API_KEY, doc, i, page_groups, current_group,
                   last_code, resolved, hybrid, gi, generated_files,
                   invocations, rule_call>>

Next ==
    \/ Start
    \/ OpenDocument
    \/ Fatal
    \/ ScanTrailer
    \/ ScanPage
    \/ EndScan
    \/ AssembleGroup
    \/ Finish

Spec == Init /\ [][Next]_vars

\* ------------------------------------------ extract_code_by_rule alone
\* The variables of process_pdf and of the session.
run_vars == <<GEMINI_API_KEY, doc, pc, i, page_groups, current_group,
              last_code, resolved, hybrid, gi, generated_files,
              processing_complete, zip_data, returned, invocations,
              open_handles, temp_file>>

\* No run of process_pdf: the session as the script initialises it.
NoRun ==
    /\ GEMINI_API_KEY = ""
    /\ doc = <<>>
    /\ pc = "idle"
    /\ i = 0
    /\ page_groups = <<>>
    /\ current_group = <<>>
    /\ last_code = None
    /\ resolved = <<>>
    /\ hybrid = NoCall
    /\ gi = 1
    /\ generated_files = <<>>
    /\ processing_complete = FALSE
    /\ zip_data = None
    /\ returned = None
    /\ invocations = <<>>
    /\ open_handles = {}
    /\ temp_file = FALSE

\* A page is about to be handed to extract_code_by_rule.
InitRule ==
    /\ NoRun
    /\ \E e \in BOOLEAN, b \in RuleBoxes :
          rule_call = [page |-> [box_error |-> e, box |-> b],
                       returned |-> FALSE, code |-> None]

\* extract_code_by_rule(page) returns.
RuleCall ==
    /\ ~rule_call.returned
    /\ rule_call' = [rule_call EXCEPT
                        !.returned = TRUE,
                        !.code = extract_code_by_rule(rule_call.page)]
    /\ UNCHANGED run_vars

NextRule == RuleCall

SpecRule == InitRule /\ [][NextRule]_vars

\* ------------------------------------------------- several runs, one session
InitSession ==
    /\ Init
    /\ doc \in SessionDocs

\* The button is pressed again, with the uploaded file and the credential
\* the page then holds: a new call of process_pdf with fresh locals.  The
\* session's file list, completion flag and archive are what the last run
\* left.
NewRun ==
    /\ pc \in {"done", "failed"}
    /\ pc' = "idle"
    /\ doc' \in SessionDocs
    /\ GEMINI_API_KEY' \in Keys
    /\ i' = 0
    /\ page_groups' = <<>>
    /\ current_group' = <<>>
    /\ last_code' = None
    /\ resolved' = <<>>
    /\ hybrid' = NoCall
    /\ gi' = 1
    /\ returned' = None
    /\ invocations' = <<>>
    /\ open_handles' = {}
    /\ UNCHANGED <<generated_files, processing_complete, zip_data,
                   temp_file, rule_call>>

NextSession ==
    \/ Start
    \/ OpenDocument
    \/ Fatal
    \/ ScanTrailer
    \/ ScanPage
    \/ EndScan
    \/ AssembleGroup
    \/ Finish
    \/ NewRun

SpecSession == InitSession /\ [][NextSession]_vars

\* ================================================================== claims
\* The emitted groups while the scan runs include the open group.
OpenGroup ==
    IF pc = "scan" /\ current_group # <<>>
    THEN <<[code |-> last_code, pages |-> current_group,
            text |-> PageText(current_group[1])]>>
    ELSE <<>>

AllGroups == page_groups \o OpenGroup

\* A page of the document carries one of the two trailer markers.
HasMarker(p) ==
    \/ Contains(doc[p + 1], <<"End", "of", "Report">>)
    \/ Contains(doc[p + 1], <<"Grand", "Total">>)

TrailerPages == {p \in 0..(total_pages - 1) : HasMarker(p)}

Emitted == pc \in {"assemble", "done"}

GroupedPages(groups) == UNION {Range(groups[g].pages) : g \in 1..Len(groups)}

\* No page index occurs twice, in one group or in two.
NoPageTwice(groups) ==
    \A a, b \in 1..Len(groups) :
        \A x \in 1..Len(groups[a].pages), y \in 1..Len(groups[b].pages) :
            (groups[a].pages[x] = groups[b].pages[y]) => (a = b /\ x = y)

\* C1: once the scan and the fallback step are over, the pages of the
\* emitted groups together with the trailer pages are exactly 0..N-1, and
\* no page index is in two groups; while the scan runs the same holds of
\* the pages scanned so far, the open group included.
C1_NoDrop ==
    /\ Emitted =>
         /\ GroupedPages(page_groups) \cup TrailerPages
              = 0..(total_pages - 1)
         /\ NoPageTwice(page_groups)
    /\ pc = "scan" =>
         /\ GroupedPages(AllGroups) \cup {p \in TrailerPages : p < i}
              = 0..(i - 1)
         /\ NoPageTwice(AllGroups)

\* C1 witness: a finished scan of a document with a trailer page, a group
\* of two pages and a second group.
C1_Witness ==
    /\ Emitted
    /\ TrailerPages # {}
    /\ Len(page_groups) >= 2
    /\ \E g \in 1..Len(page_groups) : Len(page_groups[g].pages) >= 2

\* C2 as stated: a trailer page is in no emitted group, in every document.
C2_TrailerInNoGroup ==
    \A g \in 1..Len(AllGroups) :
        \A p \in Range(AllGroups[g].pages) : ~HasMarker(p)

\* C2 amended: a trailer page is in no group the scan emits; it is in a
\* group only when every page of the document is a trailer, and then in
\* the single fallback group "ALL".
C2_TrailerOnlyInFallback ==
    \A g \in 1..Len(AllGroups) :
        \A p \in Range(AllGroups[g].pages) :
            HasMarker(p) =>
                /\ Emitted
                /\ Len(page_groups) = 1
                /\ AllGroups[g].code = ALL
                /\ TrailerPages = 0..(total_pages - 1)

\* C2 witness: a finished scan that emitted groups from a document holding
\* a "Grand Total" trailer and an "End of Report" trailer.
C2_Witness ==
    /\ Emitted
    /\ page_groups # <<>>
    /\ page_groups[1].code # ALL
    /\ \E p, q \in TrailerPages :
        /\ Contains(doc[p + 1], <<"Grand", "Total">>)
        /\ Contains(doc[q + 1], <<"End", "of", "Report">>)

\* The group (emitted or open) that holds page p.
GroupOf(p) ==
    CHOOSE g \in 1..Len(AllGroups) : p \in Range(AllGroups[g].pages)

\* A 3-letter institution code, as opposed to a sentinel, "" or None.
IsInstitution(code) == Len(code) = 3

\* C3 as stated: a page whose resolver result is "UNKNOWN", scanned while
\* the group of the page before it is open with a code, joins that group
\* and so takes its code; it never starts a group of its own.
C3_ContinuityRepair ==
    \A p \in 1..(Len(resolved) - 1) :
        ( /\ resolved[p + 1] = UNKNOWN
          /\ resolved[p] # Skipped
          /\ AllGroups[GroupOf(p - 1)].code # None )
        => GroupOf(p) = GroupOf(p - 1)

\* The number of pages at the start of the document whose resolver result
\* is "UNKNOWN", among the pages scanned so far.
Lead ==
    CHOOSE k \in 0..Len(resolved) :
        /\ \A j \in 1..k : resolved[j] = UNKNOWN
        /\ (k = Len(resolved) \/ resolved[k + 1] # UNKNOWN)

\* C4: the unresolved pages at the start of the document are the first
\* pages of one group "Unclassified"; once the next page resolves to an
\* institution code A the group holds exactly those pages, is closed, and
\* the next group is an A group that starts at that page.
C4_LeadingUnresolved ==
    Lead >= 1 =>
        LET g == AllGroups[1] IN
        /\ g.code = Unclassified
        /\ Len(g.pages) >= Lead
        /\ \A j \in 1..Lead : g.pages[j] = j - 1
        /\ (Len(resolved) > Lead /\ IsInstitution(resolved[Lead + 1])) =>
             /\ Len(g.pages) = Lead
             /\ Len(page_groups) >= 1
             /\ Len(AllGroups) >= 2
             /\ AllGroups[2].code = resolved[Lead + 1]
             /\ AllGroups[2].pages[1] = Lead

\* C4 witness: the results [UNKNOWN, UNKNOWN, A] gave Unclassified:[0,1]
\* and then A:[2].
C4_Witness ==
    /\ Emitted
    /\ Len(resolved) >= 3
    /\ resolved[1] = UNKNOWN /\ resolved[2] = UNKNOWN /\ resolved[3] = "APO"
    /\ page_groups[1].code = Unclassified /\ page_groups[1].pages = <<0, 1>>
    /\ page_groups[2].code = "APO" /\ page_groups[2].pages[1] = 2

\* C5: a scanned trailer page p is in no group of the scan; right after it
\* no group is open and no last code exists, and the group of the page
\* before it is closed; the next page, when it is no trailer, is the first
\* page of its group, and that group is "Unclassified" when the page is
\* unresolved.
C5_TrailerIsolation ==
    \A p \in 0..(Len(resolved) - 1) :
        resolved[p + 1] = Skipped =>
            /\ pc = "scan" => p \notin GroupedPages(AllGroups)
            /\ (pc = "scan" /\ i = p + 1) =>
                 (current_group = <<>> /\ last_code = None)
            /\ (pc = "scan" /\ p >= 1 /\ resolved[p] # Skipped) =>
                 p - 1 \in GroupedPages(page_groups)
            /\ (p + 2 <= Len(resolved) /\ resolved[p + 2] # Skipped) =>
                 LET g == AllGroups[GroupOf(p + 1)] IN
                 /\ g.pages[1] = p + 1
                 /\ resolved[p + 2] = UNKNOWN => g.code = Unclassified

\* C5 witness: the pages [A, A, trailer, B] gave A:[0,1] and then B:[3].
C5_Witness ==
    /\ Emitted
    /\ resolved = <<"APO", "APO", Skipped, "FPL">>
    /\ Len(page_groups) = 2
    /\ page_groups[1].code = "APO" /\ page_groups[1].pages = <<0, 1>>
    /\ page_groups[2].code = "FPL" /\ page_groups[2].pages = <<3>>

\* C6 as stated: the sentinel "UNKNOWN" is the code of no emitted group and
\* of no output file.
C6_UnknownNeverEmitted ==
    /\ \A g \in 1..Len(AllGroups) : AllGroups[g].code # UNKNOWN
    /\ \A f \in 1..Len(generated_files) : generated_files[f].code # UNKNOWN

\* C7: the backend is called only for a page on which the rule extractor
\* abstained, and only with a credential; a rule result is returned as it
\* is with no call, and without a credential the result is "UNKNOWN" with
\* no call.
C7_BackendOnlyAfterAbstention ==
    /\ hybrid.ai_calls > 0 => (hybrid.rule = None /\ GEMINI_API_KEY # "")
    /\ hybrid.rule # None =>
         (hybrid.code = hybrid.rule /\ hybrid.ai_calls = 0)
    /\ (hybrid.page >= 0 /\ hybrid.rule = None /\ GEMINI_API_KEY = "") =>
         (hybrid.code = UNKNOWN /\ hybrid.ai_calls = 0)

\* C7 witness: with a credential configured, the rule extractor gave the
\* code of the second page and the backend was not called.
C7_Witness ==
    /\ GEMINI_API_KEY = "key"
    /\ hybrid.page = 1
    /\ hybrid.path = "rule"
    /\ hybrid.code = "FPL"
    /\ hybrid.ai_calls = 0

HasPages(group) == group.pages # <<>>

\* The groups the assembly loop does not skip.
AssembledGroups == SelectSeq(page_groups, HasPages)

\* C8: the k-th output file is named after the code c and the text t of the
\* k-th assembled group: "Rpt 614-{c} Outstanding.pdf" when t contains
\* "Outstanding", "Rpt 615-{c} MF.pdf" otherwise.
C8_FilenameContract ==
    Emitted =>
        /\ Len(generated_files) <= Len(AssembledGroups)
        /\ \A k \in 1..Len(generated_files) :
            LET g == AssembledGroups[k]
                f == generated_files[k] IN
            /\ f.code = g.code
            /\ f.filename =
                 IF Contains(g.text, <<"Outstanding">>)
                 THEN "Rpt 614-" \o Str(g.code) \o " Outstanding.pdf"
                 ELSE "Rpt 615-" \o Str(g.code) \o " MF.pdf"

\* C8 witness: a run that produced "Rpt 614-APO Outstanding.pdf" and
\* "Rpt 615-APO MF.pdf".
C8_Witness ==
    /\ pc = "done"
    /\ \E a, b \in 1..Len(generated_files) :
        /\ generated_files[a].filename = "Rpt 614-APO Outstanding.pdf"
        /\ generated_files[b].filename = "Rpt 615-APO MF.pdf"

\* The scan emitted no group: every page of the document is a trailer
\* (a document without pages included).
ScanEmittedNothing == TrailerPages = 0..(total_pages - 1)

FallbackGroupOnly ==
    /\ Len(page_groups) = 1
    /\ page_groups[1].code = ALL
    /\ page_groups[1].pages = [k \in 1..total_pages |-> k - 1]

\* C9 as stated: when the scan emits no group, the run emits the one group
\* "ALL" of the pages 0..N-1, and that group gives an output file.
C9_FallbackGivesFile ==
    (Emitted /\ ScanEmittedNothing) =>
        /\ FallbackGroupOnly
        /\ pc = "done" =>
             (Len(generated_files) = 1 /\ generated_files[1].code = ALL)

\* C9 amended: when the scan emits no group, the run emits the one group
\* "ALL" of the pages 0..N-1; for N >= 1 that group gives the one output
\* file, which holds every page; for N = 0 the group has no page, is
\* skipped, and the run gives no output file.
C9_FallbackGroup ==
    (Emitted /\ ScanEmittedNothing) =>
        /\ FallbackGroupOnly
        /\ pc = "done" =>
             IF total_pages >= 1
             THEN /\ Len(generated_files) = 1
                  /\ generated_files[1].code = ALL
                  /\ generated_files[1].page_count = total_pages
                  /\ generated_files[1].content = doc
             ELSE generated_files = <<>>

\* C9 witness: a finished run on a document of two or more pages, all of
\* them trailers, with the file of the group "ALL".
C9_Witness ==
    /\ pc = "done"
    /\ total_pages >= 2
    /\ ScanEmittedNothing
    /\ Len(generated_files) = 1
    /\ generated_files[1].filename = "Rpt 615-ALL MF.pdf"

FailurePaths == {"render_error", "backend_error", "not_json", "not_object",
                 "no_code", "ai_blacklist"}

\* C10: a resolver call that ended in a failure of the AI path returned
\* "UNKNOWN" without raising; the run is still scanning, at the next page,
\* and the failing page is in the open group.
C10_FailuresAbsorbed ==
    hybrid.path \in FailurePaths =>
        /\ ~hybrid.raised
        /\ hybrid.code = UNKNOWN
        /\ pc = "scan"
        /\ i = hybrid.page + 1
        /\ resolved[i] = UNKNOWN
        /\ hybrid.page \in Range(current_group)

\* C10 witness: the backend raised on both attempts for the second page,
\* which joined the open group of the first page, and a third page is next.
C10_Witness ==
    /\ hybrid.path = "backend_error"
    /\ hybrid.ai_calls = 2
    /\ hybrid.page = 1
    /\ current_group = <<0, 1>>
    /\ pc = "scan" /\ i < total_pages

\* C11: a run that ended in the except clause returned the empty list.
C11_FatalReturnsEmpty ==
    pc = "failed" => returned = <<>>

\* C11 witness: a run that failed in the assembly after it had generated a
\* file, and returned the empty list.
C11_Witness ==
    /\ pc = "failed"
    /\ generated_files # <<>>
    /\ returned = <<>>

\* C14 as stated: a page is treated as unresolved because of a transient
\* failure (the backend raised, or the reply is no JSON) only after the
\* backend was called StopAfterAttempt times for it.
C14_TransientFailuresRetried ==
    hybrid.path \in {"backend_error", "not_json"} =>
        hybrid.ai_calls = StopAfterAttempt

Consecutive(pages) ==
    \A k \in 1..(Len(pages) - 1) : pages[k + 1] = pages[k] + 1

\* Every page of a later group lies after every page of an earlier group.
InPageOrder(groups) ==
    \A a, b \in 1..Len(groups) :
        a < b => \A x \in Range(groups[a].pages), y \in Range(groups[b].pages) :
                    x < y

\* C16 as stated: every emitted group has pages, its page indices go up in
\* steps of 1, and the groups are in page order.
C16_GroupsContiguousNonEmpty ==
    Emitted =>
        /\ \A g \in 1..Len(page_groups) :
            page_groups[g].pages # <<>> /\ Consecutive(page_groups[g].pages)
        /\ InPageOrder(page_groups)

\* C16 amended: the page indices of every group, emitted or open, go up in
\* steps of 1 and the groups are in page order; every group has pages,
\* except the fallback group "ALL" of a document without pages.
C16_GroupsContiguous ==
    /\ \A g \in 1..Len(AllGroups) :
        /\ Consecutive(AllGroups[g].pages)
        /\ AllGroups[g].pages = <<>> =>
             (total_pages = 0 /\ AllGroups[g].code = ALL /\ Len(AllGroups) = 1)
    /\ InPageOrder(AllGroups)

\* C16 witness: a finished scan with a group of two pages, a trailer and a
\* group after the trailer.
C16_Witness ==
    /\ Emitted
    /\ Len(page_groups) >= 2
    /\ page_groups[1].pages = <<0, 1>>
    /\ HasMarker(2)
    /\ page_groups[2].pages = <<3>>

\* C17 as stated: the text of every emitted group is the full text of the
\* group's first page, so its file is named "Rpt 614-..." exactly when that
\* page contains "Outstanding".
C17_RepresentativeText ==
    Emitted =>
        /\ \A g \in 1..Len(page_groups) :
            page_groups[g].pages # <<>> =>
                page_groups[g].text = doc[page_groups[g].pages[1] + 1]
        /\ \A k \in 1..Len(generated_files) :
            Contains(doc[AssembledGroups[k].pages[1] + 1], <<"Outstanding">>)
            => generated_files[k].filename
                 = "Rpt 614-" \o Str(generated_files[k].code)
                   \o " Outstanding.pdf"

\* The strings of three upper-case letters.
Institutions ==
    {a \o b \o c : a \in Range(UpperAlpha), b \in Range(UpperAlpha),
                   c \in Range(UpperAlpha)}

\* C18 as stated: the resolver returns a string of three upper-case letters
\* or "UNKNOWN", nothing else.
C18_ResolverResultShape ==
    hybrid.page >= 0 =>
        (hybrid.code = UNKNOWN \/ hybrid.code \in Institutions)

\* C19 as stated: two groups whose page ranges touch have different codes;
\* two successive groups with the same code have a trailer page between
\* them.
C19_AdjacentGroupsDiffer ==
    \A g \in 1..(Len(AllGroups) - 1) :
        LET a == AllGroups[g]
            b == AllGroups[g + 1] IN
        (a.pages # <<>> /\ b.pages # <<>>) =>
            /\ a.pages[Len(a.pages)] + 1 = b.pages[1] => a.code # b.code
            /\ a.code = b.code =>
                 \E p \in TrailerPages :
                    a.pages[Len(a.pages)] < p /\ p < b.pages[1]

\* The pages below n that carry no trailer marker, in increasing order.
RECURSIVE NonTrailersBelow(_)
NonTrailersBelow(n) ==
    IF n = 0 THEN <<>>
    ELSE IF HasMarker(n - 1) THEN NonTrailersBelow(n - 1)
         ELSE Append(NonTrailersBelow(n - 1), n - 1)

\* C13: while the scan runs and after it, the resolver has been invoked
\* exactly once for each non-trailer page the loop has passed, in strictly
\* increasing page order, and for no trailer page.
C13_ResolverOncePerPage ==
    pc \in {"scan", "assemble", "done"} =>
        invocations = NonTrailersBelow(i)

\* A finished scan that called the resolver before and after a trailer.
C13_Witness ==
    /\ pc = "done"
    /\ i = total_pages
    /\ \E a, b \in Range(invocations), t \in TrailerPages : a < t /\ t < b

\* C15: when the run has returned, every document it opened is closed and
\* the temporary file is removed.
C15_ResourcesReleased ==
    pc \in {"done", "failed"} => open_handles = {} /\ ~temp_file

IsSeparator(c) == c = " " \/ c = "\n"

\* The words of the rectangle's text from position k on, split at white
\* space; cur is the word being read.
RECURSIVE WordsFrom(_, _, _)
WordsFrom(box, k, cur) ==
    IF k > Len(box) THEN (IF cur = <<>> THEN <<>> ELSE <<cur>>)
    ELSE IF IsSeparator(box[k])
         THEN (IF cur = <<>> THEN <<>> ELSE <<cur>>)
              \o WordsFrom(box, k + 1, <<>>)
         ELSE WordsFrom(box, k + 1, Append(cur, box[k]))

IsThreeLetters(w) ==
    Len(w) = 3 /\ \A k \in 1..3 : IsUpper(w[k]) \/ IsLower(w[k])

UpperWord(w) == UpperChar(w[1]) \o UpperChar(w[2]) \o UpperChar(w[3])

\* The 3-letter tokens of a page's scan rectangle, in scan order; none
\* when the rectangle cannot be read.
TokensFound(page) ==
    IF page.box_error THEN <<>>
    ELSE LET words == SelectSeq(WordsFrom(page.box, 1, <<>>), IsThreeLetters)
         IN  [k \in 1..Len(words) |-> UpperWord(words[k])]

Survivors(toks) == {k \in 1..Len(toks) : toks[k] \notin BLACKLIST}

\* C12: extract_code_by_rule returns the first token in scan order that is
\* not blacklisted, returns None exactly when no token survives the
\* blacklist, and never returns a blacklisted token.
C12_FirstSurvivor ==
    rule_call.returned =>
        LET toks == TokensFound(rule_call.page)
            surv == Survivors(toks)
        IN  /\ (rule_call.code = None) <=> (surv = {})
            /\ surv # {} =>
                  rule_call.code =
                    toks[CHOOSE k \in surv : \A j \in surv : k <= j]
            /\ rule_call.code \notin BLACKLIST

\* A call whose first token is blacklisted and that returned a later one.
C12_Witness ==
    /\ rule_call.returned
    /\ ~rule_call.page.box_error
    /\ LET toks == TokensFound(rule_call.page)
       IN  /\ Len(toks) >= 3
           /\ toks[1] \in BLACKLIST
           /\ toks[2] \notin BLACKLIST
           /\ toks[3] \notin BLACKLIST
           /\ toks[2] # toks[3]
           /\ rule_call.code = toks[2]

\* C20: once a run has returned, a visible result (completion flag set and
\* a non-empty file list) is the complete file list of that run, and the
\* archive is the one built from that list.
C20_SessionStateOfLastRun ==
    (pc \in {"done", "failed"} /\ processing_complete
        /\ generated_files # <<>>)
    => /\ pc = "done"
       /\ returned = generated_files
       /\ zip_data = ZipOf(generated_files)
====
